---- MODULE Spec2Model ----
(***************************************************************************)
(* The containerized test orchestrator of ci/ray_ci: run_tests of          *)
(* container.py and of docker.py.  A run partitions the test targets,      *)
(* (container.py only) builds the test image, starts one docker container  *)
(* per partition with subprocess.Popen, waits on every handle and reduces  *)
(* the exit codes to one verdict.  The containers are separate processes:  *)
(* each exits on its own, at any time after it was started.                *)
(***************************************************************************)
EXTENDS Integers, Sequences, FiniteSets, TLC

\* Longest list of test targets a run is given.
MaxLen == 10
\* Largest parallelism a run is given.
MaxPar == 4

\* The two orchestrators.
Variants == {"container", "docker"}

\* Most words of a command given to run_command.
MaxWords == 3

\* test_targets: "t1".."tl", distinct target names, in order.
TargetLists == {[i \in 1..l |-> "t" \o ToString(i)] : l \in 0..MaxLen}

\* parallelism: also the non-positive values a caller may pass.
Parallelisms == (-1)..MaxPar

\* What Popen.wait() returns: 0, a non-zero exit status, or the negated
\* signal number of a container that was killed.
ExitCodes == {0, 1, -9}

\* A text is a sequence of pieces, each piece a string without blank or
\* newline, or the blank " ", or the newline "\n".
Whitespace == {" ", "\n"}

\* BUILDKITE_COMMIT of the environment; os.environ.get gives None, printed
\* "None", when it is not set.
Commits == {"abc123", "None"}

\* team of container.run_tests.
Teams == {"core"}

\* pre_run_commands of docker.run_tests: shell commands, in order.
ExportCommand == <<"export", " ", "RAY_CI=1">>
CdCommand == <<"cd", " ", "/ray">>
PreRunLists ==
    {<<>>, <<ExportCommand>>, <<ExportCommand, CdCommand>>,
     <<CdCommand, ExportCommand>>}

\* What ./ci/run/bazel_export_options prints.
OptionOutputs == {<<>>, <<"--remote_cache=x", " ", "--jobs=4", "\n">>}

\* The pre_run_commands a docker.run_tests call is given, each with an
\* output the options query prints during that call.
DockerTexts ==
    {<< <<>>, <<>> >>,
     << <<ExportCommand>>, <<"--remote_cache=x", " ", "--jobs=4", "\n">> >>,
     << <<ExportCommand, CdCommand>>, <<>> >>,
     << <<CdCommand, ExportCommand>>,
        <<"--remote_cache=x", " ", "--jobs=4", "\n">> >>}

\* command of run_command: a list of words.
Words == {<<"run">>, <<"command">>, <<"./ci/run/bazel_export_options">>}
Commands == UNION {[1..l -> Words] : l \in 0..MaxWords}

VARIABLES
    variant,       \* which run_tests is running
    test_targets,  \* argument of run_tests
    parallelism,   \* argument of run_tests
    team,          \* argument of container.run_tests
    commit,        \* os.environ.get('BUILDKITE_COMMIT') at import
    pre_run_commands,     \* argument of docker.run_tests
    bazel_export_output,  \* output of ./ci/run/bazel_export_options
    command,       \* argument of run_command when it is called by itself
    builds,        \* argument lists of the docker build calls so far
    pc,            \* position of run_tests
    chunks,        \* chunks = chunk_into_n(test_targets, parallelism)
    build,         \* docker build of _setup_test_environment: none, ok, failed
    procs,         \* every container started so far, in start order
    runs,          \* runs: the handles obtained, as indices into procs
    exits,         \* exits: the codes collected by run.wait()
    ret,           \* value returned by run_tests, "none" before it returns
    raised,        \* exception that left run_tests, "none" if none
    launch_error   \* partitions whose Popen failed

\* What a call is given; no statement assigns to it.
inputs == <<variant, test_targets, parallelism, team, commit,
            pre_run_commands, bazel_export_output, command>>

vars == <<inputs, builds, pc, chunks, build, procs, runs, exits, ret, raised,
          launch_error>>

----------------------------------------------------------------------------
(* Pure functions *)

Min(a, b) == IF a < b THEN a ELSE b

\* chunk_into_n with the next chunk starting on the last target of the
\* previous one (an off-by-one in the slice bounds).
RECURSIVE ChunkIntoN_Overlap(_, _)
ChunkIntoN_Overlap(list, n) ==
    IF list = <<>> THEN <<>>
    ELSE IF n = 1 THEN <<list>>
    ELSE LET size == (Len(list) + n - 1) \div n
         IN  <<SubSeq(list, 1, size)>>
                 \o ChunkIntoN_Overlap(SubSeq(list, size, Len(list)), n - 1)

\* chunk_into_n that always emits n chunks, the last ones empty when the
\* targets run out.
RECURSIVE ChunkIntoN_Padded(_, _)
ChunkIntoN_Padded(list, n) ==
    IF n = 1 THEN <<list>>
    ELSE LET size == (Len(list) + n - 1) \div n
         IN  <<SubSeq(list, 1, size)>>
                 \o ChunkIntoN_Padded(SubSeq(list, size + 1, Len(list)), n - 1)

\* chunk_into_n with every chunk of size ceil(len / n) but the last, which
\* takes what is left.
RECURSIVE ChunkIntoN_FixedSize(_, _, _)
ChunkIntoN_FixedSize(list, n, size) ==
    IF list = <<>> THEN <<>>
    ELSE IF n = 1 \/ Len(list) <= size THEN <<list>>
    ELSE <<SubSeq(list, 1, size)>>
             \o ChunkIntoN_FixedSize(SubSeq(list, size + 1, Len(list)), n - 1, size)

ChunkIntoN_Ceil(list, n) ==
    ChunkIntoN_FixedSize(list, n, (Len(list) + n - 1) \div n)

\* chunk_into_n(list, n) for n > 0: contiguous chunks, the sizes differ by
\* at most one with the larger chunks first, and no chunk is empty.
RECURSIVE ChunkIntoN(_, _)
ChunkIntoN(list, n) ==
    IF list = <<>> THEN <<>>
    ELSE IF n = 1 THEN <<list>>
    ELSE LET size == (Len(list) + n - 1) \div n
         IN  <<SubSeq(list, 1, size)>>
                 \o ChunkIntoN(SubSeq(list, size + 1, Len(list)), n - 1)

\* chunk_into_n rejects a non-positive n.
ChunkRaises(n) == n <= 0

\* any(exit == 0 for exit in exits)
RECURSIVE AllZero_Any(_)
AllZero_Any(es) ==
    IF es = <<>> THEN FALSE
    ELSE IF Head(es) = 0 THEN TRUE ELSE AllZero_Any(Tail(es))

\* exits[0] == 0: only the first exit code is looked at.
AllZero_First(es) == es = <<>> \/ Head(es) = 0

\* all(exit == 0 for exit in exits)
RECURSIVE AllZero(_)
AllZero(es) ==
    IF es = <<>> THEN TRUE
    ELSE IF Head(es) = 0 THEN AllZero(Tail(es)) ELSE FALSE

\* return all(exit == 0 for exit in exits)
ContainerReduce(es) == IF AllZero(es) THEN "True" ELSE "False"

\* return 1 if all(exit == 0 for exit in exits) else 0
DockerReduce_Inverted(es) == IF AllZero(es) THEN "1" ELSE "0"

\* return 0 if all(exit == 0 for exit in exits) else 1
DockerReduce(es) == IF AllZero(es) THEN "0" ELSE "1"

\* sep.join(texts)
RECURSIVE Join(_, _)
Join(sep, texts) ==
    IF texts = <<>> THEN <<>>
    ELSE IF Len(texts) = 1 THEN texts[1]
    ELSE texts[1] \o sep \o Join(sep, Tail(texts))

\* text.split(): the maximal runs of pieces that are not whitespace.
RECURSIVE SplitFrom(_, _)
SplitFrom(text, word) ==
    IF text = <<>> THEN (IF word = <<>> THEN <<>> ELSE <<word>>)
    ELSE IF Head(text) \in Whitespace
         THEN (IF word = <<>> THEN <<>> ELSE <<word>>) \o SplitFrom(Tail(text), <<>>)
         ELSE SplitFrom(Tail(text), Append(word, Head(text)))

Split(text) == SplitFrom(text, <<>>)

DOCKER_ECR == "029272617770.dkr.ecr.us-west-2.amazonaws.com"
DOCKER_REPO == "ci_base_images"
ROOT_DIR == "/ray/ci/ray_ci"

\* DOCKER_TAG = f"oss-ci-build_{os.environ.get('BUILDKITE_COMMIT')}"
DockerTag(c) == <<"oss-ci-build_", c>>

\* _get_docker_image(): f"{DOCKER_ECR}/{DOCKER_REPO}:{DOCKER_TAG}"
GetDockerImage(c) == <<DOCKER_ECR, "/", DOCKER_REPO, ":">> \o DockerTag(c)

\* _get_docker_run_command(), the same list in container.py and docker.py
GetDockerRunCommand(c) ==
    << <<"docker">>, <<"run">>, <<"-i">>, <<"--rm">>, <<"--workdir">>,
       <<"/ray">>, <<"--shm-size=2.5gb">>, GetDockerImage(c) >>

\* docker build that tags the image it builds with the team, not with the
\* tag of the commit.
DockerBuildCommand_TeamTag(tm, c) ==
    << <<"docker">>, <<"build">>,
       <<"--build-arg">>, <<"BASE_IMAGE=">> \o GetDockerImage(c),
       <<"--build-arg">>, <<"TEST_ENVIRONMENT_SCRIPT=", tm, ".tests.env.sh">>,
       <<"-t">>, <<DOCKER_ECR, "/", DOCKER_REPO, ":", tm>>,
       <<"-f">>, <<ROOT_DIR, "/tests.env.Dockerfile">>,
       <<ROOT_DIR>> >>

\* The argument list of docker build in _setup_test_environment(team).
DockerBuildCommand(tm, c) ==
    << <<"docker">>, <<"build">>,
       <<"--build-arg">>, <<"BASE_IMAGE=">> \o GetDockerImage(c),
       <<"--build-arg">>, <<"TEST_ENVIRONMENT_SCRIPT=", tm, ".tests.env.sh">>,
       <<"-t">>, GetDockerImage(c),
       <<"-f">>, <<ROOT_DIR, "/tests.env.Dockerfile">>,
       <<ROOT_DIR>> >>

\* container.py: _docker_run_bash_script(script)
DockerRunBashScript(script, c) ==
    GetDockerRunCommand(c) \o << <<"/bin/bash">>, <<"-ice">>, script >>

\* container.py: f"bazel test --config=ci {' '.join(test_targets)}"
ContainerCommand(targets) ==
    <<"bazel", " ", "test", " ", "--config=ci", " ">>
        \o Join(<<" ">>, [i \in 1..Len(targets) |-> <<targets[i]>>])

\* docker.py: the bazel command without the lines of pre_test_commands.
DockerCommand_NoPre(targets, pre_test_commands, output) ==
    Join(<<" ">>,
         << <<"bazel">>, <<"test">>, <<"--config=ci">> >>
             \o [i \in 1..Len(targets) |-> <<targets[i]>>]
             \o Split(output))

\* docker.py: command of _run_tests_in_docker, with bazel_options the
\* split output of the bazel_export_options query:
\* "\n".join(pre_test_commands + [" ".join(bazel_command)])
DockerCommand(targets, pre_test_commands, output) ==
    LET bazel_options == Split(output)
        bazel_command ==
            << <<"bazel">>, <<"test">>, <<"--config=ci">> >>
                \o [i \in 1..Len(targets) |-> <<targets[i]>>]
                \o bazel_options
    IN  Join(<<"\n">>, pre_test_commands \o <<Join(<<" ">>, bazel_command)>>)

\* docker.py: the argument list of Popen in _run_tests_in_docker
DockerRunArgs(script, c) ==
    GetDockerRunCommand(c) \o << <<"/bin/bash">>, <<"-ic">>, script >>

\* run_command with the flags of container.py's _docker_run_bash_script.
RunCommandArgs_Ice(cmd, c) ==
    GetDockerRunCommand(c) \o << <<"/bin/bash">>, <<"-ice">>, Join(<<" ">>, cmd) >>

\* docker.py: the argument list of check_output in run_command(command)
RunCommandArgs(cmd, c) ==
    GetDockerRunCommand(c) \o << <<"/bin/bash">>, <<"-ic">>, Join(<<" ">>, cmd) >>

----------------------------------------------------------------------------
(* State *)

\* Before the first statement of any call.
Idle ==
    /\ commit \in Commits
    /\ builds = <<>>
    /\ chunks = <<>>
    /\ build = "none"
    /\ procs = <<>>
    /\ runs = <<>>
    /\ exits = <<>>
    /\ ret = "none"
    /\ raised = "none"
    /\ launch_error = {}

\* A call of container.run_tests(team, test_targets, parallelism) or of
\* docker.run_tests(test_targets, pre_run_commands, parallelism).
Init ==
    /\ variant \in Variants
    /\ test_targets \in TargetLists
    /\ parallelism \in Parallelisms
    /\ IF variant = "container"
       THEN /\ team \in Teams
            /\ pre_run_commands = <<>>
            /\ bazel_export_output = <<>>
       ELSE /\ team = "none"
            /\ \E txt \in DockerTexts :
                   /\ pre_run_commands = txt[1]
                   /\ bazel_export_output = txt[2]
    /\ command = <<>>
    /\ pc = "chunk"
    /\ Idle

\* Where run_tests continues once `rs` handles of `ch` chunks are obtained:
\* the first comprehension goes on, or the second starts, or (no handle at
\* all) the return statement is reached.
AfterLaunch(ch, rs) ==
    IF Len(rs) < Len(ch) THEN "launch"
    ELSE IF Len(rs) = 0 THEN "reduce" ELSE "wait"

\* A fan-in that stops at the first non-zero exit code.
AfterWait_FailFast(rs, es) ==
    IF Len(es) < Len(rs) /\ es[Len(es)] = 0 THEN "wait" ELSE "reduce"

\* Where run_tests continues once `es` of the handles `rs` are waited upon.
AfterWait(rs, es) == IF Len(es) < Len(rs) THEN "wait" ELSE "reduce"

\* run_tests taking a non-positive parallelism for "no chunks" and going on.
Chunk_Lenient ==
    /\ pc = "chunk"
    /\ chunks' = IF ChunkRaises(parallelism) THEN <<>>
                 ELSE ChunkIntoN(test_targets, parallelism)
    /\ pc' = IF variant = "container" THEN "setup"
             ELSE AfterLaunch(chunks', runs)
    /\ UNCHANGED <<inputs, builds, build, procs, runs,
                   exits, ret, raised, launch_error>>

\* container.run_tests without its call of _setup_test_environment.
Chunk_NoSetup ==
    /\ pc = "chunk"
    /\ IF ChunkRaises(parallelism)
       THEN /\ raised' = "ConfigError"
            /\ pc' = "raised"
            /\ UNCHANGED chunks
       ELSE /\ chunks' = ChunkIntoN(test_targets, parallelism)
            /\ pc' = AfterLaunch(chunks', runs)
            /\ UNCHANGED raised
    /\ UNCHANGED <<inputs, builds, build, procs, runs,
                   exits, ret, launch_error>>

\* chunks = chunk_into_n(test_targets, parallelism)
Chunk ==
    /\ pc = "chunk"
    /\ IF ChunkRaises(parallelism)
       THEN /\ raised' = "ConfigError"
            /\ pc' = "raised"
            /\ UNCHANGED chunks
       ELSE /\ chunks' = ChunkIntoN(test_targets, parallelism)
            /\ pc' = IF variant = "container" THEN "setup"
                     ELSE AfterLaunch(chunks', runs)
            /\ UNCHANGED raised
    /\ UNCHANGED <<inputs, builds, build, procs, runs,
                   exits, ret, launch_error>>

\* _setup_test_environment with subprocess.call: the exit status of docker
\* build is dropped and run_tests goes on.
SetupTestEnvironment_Call ==
    /\ pc = "setup"
    /\ builds' = Append(builds, DockerBuildCommand(team, commit))
    /\ \E ok \in BOOLEAN :
        build' = IF ok THEN "ok" ELSE "failed"
    /\ pc' = AfterLaunch(chunks, runs)
    /\ UNCHANGED <<inputs, chunks, procs, runs,
                   exits, ret, raised, launch_error>>

\* _setup_test_environment(team): subprocess.check_call of docker build,
\* which raises CalledProcessError when the build exits non-zero.
SetupTestEnvironment ==
    /\ pc = "setup"
    /\ builds' = Append(builds, DockerBuildCommand(team, commit))
    /\ \E ok \in BOOLEAN :
        IF ok
        THEN /\ build' = "ok"
             /\ pc' = AfterLaunch(chunks, runs)
             /\ UNCHANGED raised
        ELSE /\ build' = "failed"
             /\ pc' = "raised"
             /\ raised' = "CalledProcessError"
    /\ UNCHANGED <<inputs, chunks, procs, runs,
                   exits, ret, launch_error>>

\* A container as subprocess.Popen leaves it: started, not waited upon.
TestProc(k) ==
    [kind |-> "test", chunk |-> k, targets |-> chunks[k],
     argv |-> IF variant = "container"
              THEN DockerRunBashScript(ContainerCommand(chunks[k]), commit)
              ELSE DockerRunArgs(DockerCommand(chunks[k], pre_run_commands,
                                               bazel_export_output), commit),
     state |-> "running", code |-> 0, waits |-> 0, signalled |-> FALSE]

\* The container of a run_command call, which subprocess.check_output has
\* run to its end with exit code c.
CommandProc(cmd, k, c) ==
    [kind |-> "options", chunk |-> k, targets |-> <<>>,
     argv |-> RunCommandArgs(cmd, commit),
     state |-> "exited", code |-> c, waits |-> 1, signalled |-> FALSE]

\* subprocess.run in place of Popen: the call returns when the container
\* has exited, so the next launch finds every earlier container exited.
Popen_Blocking(k) ==
    /\ \A i \in 1..Len(procs) : procs[i].state = "exited"
    /\ \E ok \in BOOLEAN :
        IF ok
        THEN /\ procs' = Append(procs, TestProc(k))
             /\ runs' = Append(runs, Len(procs) + 1)
             /\ pc' = AfterLaunch(chunks, runs')
             /\ UNCHANGED <<raised, launch_error>>
        ELSE /\ raised' = "OSError"
             /\ launch_error' = launch_error \cup {k}
             /\ pc' = "raised"
             /\ UNCHANGED <<procs, runs>>

\* A launch that starts the container of chunk k twice and keeps the second
\* handle.
Popen_Twice(k) ==
    \E ok \in BOOLEAN :
        IF ok
        THEN /\ procs' = Append(Append(procs, TestProc(k)), TestProc(k))
             /\ runs' = Append(runs, Len(procs) + 2)
             /\ pc' = AfterLaunch(chunks, runs')
             /\ UNCHANGED <<raised, launch_error>>
        ELSE /\ raised' = "OSError"
             /\ launch_error' = launch_error \cup {k}
             /\ pc' = "raised"
             /\ UNCHANGED <<procs, runs>>

\* subprocess.Popen(docker run ...) for chunk k: returns the handle of the
\* started container at once, or raises OSError when the process cannot be
\* started, and the exception leaves run_tests.
Popen(k) ==
    \E ok \in BOOLEAN :
        IF ok
        THEN /\ procs' = Append(procs, TestProc(k))
             /\ runs' = Append(runs, Len(procs) + 1)
             /\ pc' = AfterLaunch(chunks, runs')
             /\ UNCHANGED <<raised, launch_error>>
        ELSE /\ raised' = "OSError"
             /\ launch_error' = launch_error \cup {k}
             /\ pc' = "raised"
             /\ UNCHANGED <<procs, runs>>

\* container.py: _run_tests_in_docker(chunk), one step of
\* runs = [_run_tests_in_docker(chunk) for chunk in chunks]
ContainerRunTestsInDocker ==
    /\ variant = "container"
    /\ pc = "launch"
    /\ Popen(Len(runs) + 1)
    /\ UNCHANGED <<inputs, builds, chunks, build, exits,
                   ret>>

\* docker.py: run_command(["./ci/run/bazel_export_options"]), the first
\* statement of _run_tests_in_docker: subprocess.check_output runs one more
\* container to its end, and raises CalledProcessError if it exits non-zero.
DockerRunCommand ==
    /\ variant = "docker"
    /\ pc = "launch"
    /\ \E c \in ExitCodes :
        /\ procs' = Append(procs,
               CommandProc(<< <<"./ci/run/bazel_export_options">> >>,
                           Len(runs) + 1, c))
        /\ IF c = 0
           THEN /\ pc' = "popen"
                /\ UNCHANGED raised
           ELSE /\ pc' = "raised"
                /\ raised' = "CalledProcessError"
    /\ UNCHANGED <<inputs, builds, chunks, build, runs,
                   exits, ret, launch_error>>

\* docker.py: the Popen that ends _run_tests_in_docker(chunk, pre_run_commands)
DockerRunTestsInDocker ==
    /\ variant = "docker"
    /\ pc = "popen"
    /\ Popen(Len(runs) + 1)
    /\ UNCHANGED <<inputs, builds, chunks, build, exits,
                   ret>>

\* A running container terminates: its tests pass, fail, or it is killed.
ContainerExit ==
    /\ \E i \in 1..Len(procs) :
        /\ procs[i].state = "running"
        /\ \E c \in ExitCodes :
            procs' = [procs EXCEPT ![i].state = "exited", ![i].code = c]
    /\ UNCHANGED <<inputs, builds, pc, chunks, build, runs,
                   exits, ret, raised, launch_error>>

\* run.returncode or 0 in place of run.wait(): does not block, and takes a
\* container that is still running for a success.
Wait_NoBlock ==
    /\ pc = "wait"
    /\ LET h == runs[Len(exits) + 1]
       IN  IF procs[h].state = "exited"
           THEN /\ exits' = Append(exits, procs[h].code)
                /\ procs' = [procs EXCEPT ![h].waits = @ + 1]
           ELSE /\ exits' = Append(exits, 0)
                /\ UNCHANGED procs
    /\ pc' = AfterWait(runs, exits')
    /\ UNCHANGED <<inputs, builds, chunks, build, runs,
                   ret, raised, launch_error>>

\* A wait that polls until the container reports success: it never returns
\* for a container that failed or was killed.
Wait_UntilZero ==
    /\ pc = "wait"
    /\ LET h == runs[Len(exits) + 1]
       IN  /\ procs[h].state = "exited"
           /\ procs[h].code = 0
           /\ exits' = Append(exits, procs[h].code)
           /\ procs' = [procs EXCEPT ![h].waits = @ + 1]
    /\ pc' = AfterWait(runs, exits')
    /\ UNCHANGED <<inputs, builds, chunks, build, runs,
                   ret, raised, launch_error>>

\* A wait that starts the container of a failed partition once more and
\* waits on the new handle instead.
Wait_Retry ==
    /\ pc = "wait"
    /\ LET k == Len(exits) + 1
           h == runs[k]
       IN  /\ procs[h].state = "exited"
           /\ IF procs[h].code # 0
                 /\ Cardinality({i \in 1..Len(procs) : procs[i].chunk = k}) < 2
              THEN /\ procs' = Append([procs EXCEPT ![h].waits = @ + 1],
                                      TestProc(k))
                   /\ runs' = [runs EXCEPT ![k] = Len(procs) + 1]
                   /\ UNCHANGED <<exits, pc>>
              ELSE /\ exits' = Append(exits, procs[h].code)
                   /\ procs' = [procs EXCEPT ![h].waits = @ + 1]
                   /\ pc' = AfterWait(runs, exits')
                   /\ UNCHANGED runs
    /\ UNCHANGED <<inputs, builds, chunks, build, ret,
                   raised, launch_error>>

\* run.wait() on runs[0] at every step of the comprehension.
Wait_First ==
    /\ pc = "wait"
    /\ LET h == runs[1]
       IN  /\ procs[h].state = "exited"
           /\ exits' = Append(exits, procs[h].code)
           /\ procs' = [procs EXCEPT ![h].waits = @ + 1]
    /\ pc' = AfterWait(runs, exits')
    /\ UNCHANGED <<inputs, builds, chunks, build, runs,
                   ret, raised, launch_error>>

\* run.wait(), one step of exits = [run.wait() for run in runs]: blocks
\* until the container of the next handle has exited, returns its code.
Wait ==
    /\ pc = "wait"
    /\ LET h == runs[Len(exits) + 1]
       IN  /\ procs[h].state = "exited"
           /\ exits' = Append(exits, procs[h].code)
           /\ procs' = [procs EXCEPT ![h].waits = @ + 1]
    /\ pc' = AfterWait(runs, exits')
    /\ UNCHANGED <<inputs, builds, chunks, build, runs,
                   ret, raised, launch_error>>

\* The caller aborts the run: a signal (SIGINT) reaches the supervisor
\* while it launches or waits, and KeyboardInterrupt leaves run_tests.
\* run_tests has no handler, no finally and no context manager around its
\* handles: nothing is sent to the containers and none is waited upon.
Abort ==
    /\ pc \in {"launch", "popen", "wait"}
    /\ pc' = "raised"
    /\ raised' = "KeyboardInterrupt"
    /\ UNCHANGED <<inputs, builds, chunks, build, procs,
                   runs, exits, ret, launch_error>>

\* The return statement of run_tests.
Reduce ==
    /\ pc = "reduce"
    /\ ret' = IF variant = "container" THEN ContainerReduce(exits)
              ELSE DockerReduce(exits)
    /\ pc' = "done"
    /\ UNCHANGED <<inputs, builds, chunks, build, procs,
                   runs, exits, raised, launch_error>>

Next ==
    \/ Chunk
    \/ SetupTestEnvironment
    \/ ContainerRunTestsInDocker
    \/ DockerRunCommand
    \/ DockerRunTestsInDocker
    \/ ContainerExit
    \/ Wait
    \/ Abort
    \/ Reduce

Spec == Init /\ [][Next]_vars

\* docker.py: run_command(command), called by itself as test_run_command
\* does: one docker run, waited for; CalledProcessError if it exits non-zero.
RunCommand ==
    /\ pc = "run_command"
    /\ \E c \in ExitCodes :
        /\ procs' = Append(procs, CommandProc(command, 0, c))
        /\ IF c = 0
           THEN /\ pc' = "returned"
                /\ UNCHANGED raised
           ELSE /\ pc' = "raised"
                /\ raised' = "CalledProcessError"
    /\ UNCHANGED <<inputs, builds, chunks, build, runs, exits, ret,
                   launch_error>>

\* A call of docker.run_command(command).
CmdInit ==
    /\ variant = "docker"
    /\ test_targets = <<>>
    /\ parallelism = 1
    /\ team = "none"
    /\ pre_run_commands = <<>>
    /\ bazel_export_output = <<>>
    /\ command \in Commands
    /\ pc = "run_command"
    /\ Idle

CmdNext == RunCommand

CmdSpec == CmdInit /\ [][CmdNext]_vars

\* The statements of run_tests: the interpreter goes on to the next one
\* whenever it can be executed.
Step ==
    \/ Chunk
    \/ SetupTestEnvironment
    \/ ContainerRunTestsInDocker
    \/ DockerRunCommand
    \/ DockerRunTestsInDocker
    \/ Wait
    \/ Reduce

\* The calls of run_tests with one value of each text input: the texts
\* change what the containers are told to run, not what run_tests does next.
LiveInit ==
    /\ Init
    /\ commit = "abc123"
    /\ pre_run_commands = <<>>
    /\ bazel_export_output = <<>>

\* run_tests keeps running, and every started container terminates; the
\* caller may abort or not.
LiveSpec ==
    LiveInit /\ [][Next]_vars /\ WF_vars(Step) /\ WF_vars(ContainerExit)

TypeOK ==
    /\ variant \in Variants
    /\ test_targets \in TargetLists
    /\ parallelism \in Parallelisms
    /\ pc \in {"chunk", "setup", "launch", "popen", "wait", "reduce", "done",
               "raised", "run_command", "returned"}
    /\ build \in {"none", "ok", "failed"}
    /\ ret \in {"none", "True", "False", "0", "1"}
    /\ raised \in {"none", "ConfigError", "CalledProcessError", "OSError",
                  "KeyboardInterrupt"}
    /\ pre_run_commands \in PreRunLists
    /\ bazel_export_output \in OptionOutputs
    /\ commit \in Commits
    /\ Len(runs) <= Len(chunks)
    /\ Len(exits) <= Len(runs)

----------------------------------------------------------------------------
(* Properties *)

\* chunks holds the value of chunk_into_n(test_targets, parallelism).
Chunked == pc \notin {"chunk"} /\ raised # "ConfigError"

RECURSIVE Flatten(_)
Flatten(ss) == IF ss = <<>> THEN <<>> ELSE Head(ss) \o Flatten(Tail(ss))

\* The targets of the chunks, as a set, chunk by chunk.
ChunkSet(k) == {chunks[k][i] : i \in 1..Len(chunks[k])}

\* C1: for a positive n the chunks, concatenated in order, are the target
\* list itself: they are contiguous, pairwise disjoint, and cover every
\* target exactly once.
C1_PartitionCovers ==
    Chunked =>
        /\ Flatten(chunks) = test_targets
        /\ \A j, k \in 1..Len(chunks) : j # k => ChunkSet(j) \cap ChunkSet(k) = {}
        /\ \A t \in 1..Len(test_targets) :
               Cardinality({k \in 1..Len(chunks) : test_targets[t] \in ChunkSet(k)}) = 1

C1_Witness ==
    /\ Chunked
    /\ Len(test_targets) = 10
    /\ parallelism = 3
    /\ Len(chunks) = 3

\* C2: a non-empty target list gives min(n, len) chunks and an empty one
\* gives none; no chunk is empty, so n > len gives len chunks of one target.
C2_PartitionCount ==
    Chunked =>
        /\ Len(chunks) = IF Len(test_targets) > 0
                         THEN Min(parallelism, Len(test_targets)) ELSE 0
        /\ \A k \in 1..Len(chunks) : Len(chunks[k]) > 0
        /\ parallelism > Len(test_targets) =>
               /\ Len(chunks) = Len(test_targets)
               /\ \A k \in 1..Len(chunks) : Len(chunks[k]) = 1

C2_Witness ==
    /\ Chunked
    /\ Len(test_targets) = 2
    /\ parallelism = 4
    /\ Len(chunks) = 2

\* C3: with len = q*n + r and 0 <= r < n, the first r chunks have q + 1
\* targets and the others have q, so two sizes differ by at most 1.
C3_PartitionBalanced ==
    Chunked =>
        LET q == Len(test_targets) \div parallelism
            r == Len(test_targets) % parallelism
        IN  /\ \A k \in 1..Len(chunks) :
                   Len(chunks[k]) = IF k <= r THEN q + 1 ELSE q
            /\ \A j, k \in 1..Len(chunks) :
                   Len(chunks[j]) - Len(chunks[k]) \in {-1, 0, 1}

C3_Witness ==
    /\ Chunked
    /\ Len(test_targets) = 10
    /\ parallelism = 3
    /\ [k \in 1..Len(chunks) |-> Len(chunks[k])] = <<4, 3, 3>>

\* C4: a run with parallelism <= 0 fails with ConfigError at its first
\* statement: no image is built, no container is started, nothing is
\* returned.
C4_NonPositiveParallelism ==
    parallelism <= 0 =>
        /\ build = "none"
        /\ procs = <<>>
        /\ ret = "none"
        /\ pc \in {"chunk", "raised"}
        /\ pc = "raised" => raised = "ConfigError"

C4_Witness ==
    /\ parallelism <= 0
    /\ Len(test_targets) > 0
    /\ pc = "raised"
    /\ raised = "ConfigError"

\* C5: the verdict is success exactly when every collected exit code is 0
\* (so also when none was collected): True/False in container.py, 0/1 in
\* docker.py.
C5_ReduceAllZero ==
    pc = "done" =>
        LET allzero == \A i \in 1..Len(exits) : exits[i] = 0
        IN  /\ variant = "container" =>
                   ret = IF allzero THEN "True" ELSE "False"
            /\ variant = "docker" =>
                   ret = IF allzero THEN "0" ELSE "1"

\* One failure among successes.
C5_Witness ==
    /\ pc = "done"
    /\ exits = <<0, 0, 1, 0>>
    /\ ret = "False"

\* The verdict of a finished run.
Success == ret \in {"True", "0"}
Failure == ret \in {"False", "1"}

\* The test containers started so far, as indices into procs.
TestProcs == {i \in 1..Len(procs) : procs[i].kind = "test"}

\* C6: a run over a non-empty target list with positive n that reports
\* success has passed every target to exactly one started container, has
\* waited on every such container, and each has exited 0; the reduction is
\* never reached with no exit code when there are targets.
C6_NoFailureDropped ==
    /\ (pc = "done" /\ Success /\ Len(test_targets) > 0 /\ parallelism > 0) =>
           /\ \A t \in 1..Len(test_targets) :
                  Cardinality({i \in TestProcs :
                      \E j \in 1..Len(procs[i].targets) :
                          procs[i].targets[j] = test_targets[t]}) = 1
           /\ \A i \in TestProcs :
                  /\ procs[i].waits >= 1
                  /\ procs[i].state = "exited"
                  /\ procs[i].code = 0
    /\ (pc \in {"reduce", "done"} /\ Len(test_targets) > 0) => Len(exits) > 0

C6_Witness ==
    /\ pc = "done"
    /\ Success
    /\ Len(test_targets) = 10
    /\ Cardinality(TestProcs) = 3

\* C7: no handle is waited upon before the handle of every partition is
\* obtained, and the launch of the next partition can always go on, whatever
\* the containers launched earlier are doing.
C7_FanOutBeforeFanIn ==
    /\ (exits # <<>> \/ \E i \in TestProcs : procs[i].waits > 0) =>
           Len(runs) = Len(chunks)
    /\ (pc = "launch" /\ variant = "container") => ENABLED ContainerRunTestsInDocker
    /\ (pc = "launch" /\ variant = "docker") => ENABLED DockerRunCommand
    /\ pc = "popen" => ENABLED DockerRunTestsInDocker

\* Every partition is running at once, before the first wait returns.
C7_Witness ==
    /\ pc = "wait"
    /\ exits = <<>>
    /\ Len(runs) = 4
    /\ \A i \in TestProcs : procs[i].state = "running"

\* C8: once every container is launched, the reduction runs only after every
\* handle obtained was waited upon, whatever the exit codes; a non-zero exit
\* code makes the verdict a failure.
C8_AllHandlesWaited ==
    pc \in {"reduce", "done"} =>
        /\ Len(runs) = Len(chunks)
        /\ Len(exits) = Len(runs)
        /\ \A k \in 1..Len(runs) :
               /\ procs[runs[k]].waits >= 1
               /\ procs[runs[k]].state = "exited"
        /\ (pc = "done" /\ \E k \in 1..Len(exits) : exits[k] # 0) => Failure

\* The middle one of three containers exits 1.
C8_Witness ==
    /\ pc = "done"
    /\ exits = <<0, 1, 0>>
    /\ Failure
    /\ \A k \in 1..3 : procs[runs[k]].waits = 1

\* C9: after a failed docker build the run is over with an exception: no
\* container was started and nothing is returned.
C9_BuildFailureAborts ==
    build = "failed" =>
        /\ procs = <<>>
        /\ runs = <<>>
        /\ pc = "raised"
        /\ raised = "CalledProcessError"
        /\ ret = "none"

C9_Witness ==
    /\ build = "failed"
    /\ Len(chunks) = 3
    /\ pc = "raised"

\* C10: a partition whose container cannot be launched counts as a failed
\* partition: run_tests does not raise, the other partitions are launched
\* and waited upon, and the verdict is failure.
C10_LaunchErrorCounted ==
    launch_error # {} =>
        /\ raised = "none"
        /\ pc = "done" =>
               /\ Failure
               /\ \A k \in (1..Len(chunks)) \ launch_error :
                      \E i \in TestProcs :
                          procs[i].chunk = k /\ procs[i].waits >= 1

\* The containers that are started and not waited upon.
Outstanding == {i \in 1..Len(procs) : procs[i].waits = 0}

\* C11: when the caller aborts the run while containers are outstanding,
\* every outstanding container is sent a termination signal and reaped, and
\* the run is not reported as a success.
C11_AbortReapsContainers ==
    raised = "KeyboardInterrupt" =>
        /\ \A i \in TestProcs :
               procs[i].waits >= 1 \/ (procs[i].signalled /\ procs[i].state = "exited")
        /\ Outstanding = {}
        /\ ~Success

\* C12: when run_tests is over, by a verdict or by the exception of a
\* failed launch or of a failed bazel_export_options query, every container
\* it started has been waited upon.
C12_NoHandleOutlivesRun ==
    (pc = "done" \/ (pc = "raised" /\ raised \in {"OSError", "CalledProcessError"})) =>
        Outstanding = {}

\* C13 as stated: run_tests always ends by returning a verdict, that is, it
\* never ends by raising.
C13_AlwaysVerdict == pc # "raised"

\* C13: with every started container terminating, run_tests does not hang:
\* it ends, by a verdict or by an exception; once every partition is
\* launched it returns a verdict unless the caller aborts; and the code of a
\* container that crashed or was killed is collected as it is, non-zero,
\* and makes the verdict a failure.
C13_NoHang ==
    /\ <>(pc \in {"done", "raised"})
    /\ (pc = "wait") ~> (pc = "done" \/ raised = "KeyboardInterrupt")
    /\ [](\A k \in 1..Len(exits) : exits[k] = procs[runs[k]].code)
    /\ []((pc = "done" /\ \E k \in 1..Len(runs) : procs[runs[k]].code # 0)
              => Failure)

\* The second of two containers was killed.
C13_Witness ==
    /\ pc = "done"
    /\ exits = <<0, -9>>
    /\ Failure

\* The reduction of the running variant.
ReduceOf(es) ==
    IF variant = "container" THEN ContainerReduce(es) ELSE DockerReduce(es)

\* C15: the verdict does not depend on the order of the exit codes: every
\* permutation of the collected codes reduces to the verdict returned.
C15_ReduceOrderIndependent ==
    pc = "done" =>
        \A p \in Permutations(1..Len(exits)) :
            ReduceOf([i \in 1..Len(exits) |-> exits[p[i]]]) = ret

C15_Witness ==
    /\ pc = "done"
    /\ variant = "docker"
    /\ exits = <<1, 0, -9>>
    /\ ret = "1"

\* The test containers started for chunk k.
ProcsOfChunk(k) == {i \in TestProcs : procs[i].chunk = k}

\* C16: no retries: a partition's container is started at most once,
\* whatever the exit codes, and an exit code once recorded stays as it is,
\* as does the handle it was read from.
C16_NoRetries ==
    [][/\ \A k \in 1..Len(chunks') : Cardinality(ProcsOfChunk(k))' <= 1
       /\ Len(exits') >= Len(exits)
       /\ \A k \in 1..Len(exits) : exits'[k] = exits[k]
       /\ Len(runs') >= Len(runs)
       /\ \A k \in 1..Len(runs) : runs'[k] = runs[k]]_vars

\* A failed first partition, not started again.
C16_Witness ==
    /\ pc = "done"
    /\ exits = <<1, 0>>
    /\ Cardinality(ProcsOfChunk(1)) = 1
    /\ Cardinality(TestProcs) = 2

\* The containers of the bazel_export_options queries.
OptionProcs == {i \in 1..Len(procs) : procs[i].kind = "options"}

\* C17 as stated: over a whole run as many containers are started as there
\* are partitions.
C17_OneContainerPerCall ==
    pc \in {"wait", "reduce", "done"} => Len(procs) = Len(chunks)

\* C17: each call of _run_tests_in_docker starts exactly one test container
\* and returns its handle, so a run starts as many test containers as it has
\* partitions.  container.py starts no other container; docker.py runs, in
\* each call, one bazel_export_options container to its end before it starts
\* the test container: two containers per partition.
C17_OneTestContainerPerCall ==
    /\ Cardinality(TestProcs) = Len(runs)
    /\ \A k \in 1..Len(runs) :
           /\ procs[runs[k]].kind = "test"
           /\ procs[runs[k]].chunk = k
    /\ pc \in {"wait", "reduce", "done"} => Cardinality(TestProcs) = Len(chunks)
    /\ variant = "container" => OptionProcs = {}
    /\ variant = "docker" =>
           /\ Cardinality(OptionProcs) \in {Len(runs), Len(runs) + 1}
           /\ \A i \in OptionProcs :
                  procs[i].state = "exited" /\ procs[i].waits = 1
           /\ pc \in {"wait", "reduce", "done"} => Len(procs) = 2 * Len(chunks)

C17_Witness ==
    /\ variant = "docker"
    /\ pc = "done"
    /\ Len(chunks) = 3
    /\ Cardinality(TestProcs) = 3
    /\ Len(procs) = 6

\* C18: a handle is never waited upon twice, and in a run that returned a
\* verdict every handle was waited upon exactly once, the i-th exit code
\* being the code of the container of the i-th partition.
C18_WaitedExactlyOnce ==
    /\ \A i \in TestProcs : procs[i].waits <= 1
    /\ pc = "done" =>
           /\ \A i \in TestProcs : procs[i].waits = 1
           /\ Len(exits) = Len(chunks)
           /\ \A k \in 1..Len(exits) :
                  /\ procs[runs[k]].chunk = k
                  /\ exits[k] = procs[runs[k]].code

C18_Witness ==
    /\ pc = "done"
    /\ exits = <<0, 1, -9, 0>>
    /\ \A i \in TestProcs : procs[i].waits = 1

\* sub occurs in text, as `sub in text` of two Python strings.
Contains(text, sub) ==
    \E i \in 0..(Len(text) - Len(sub)) : SubSeq(text, i + 1, i + Len(sub)) = sub

\* C14: run_command(command) runs one container and waits for it; its
\* argument list is the docker run prefix, "/bin/bash", "-ic" and one more
\* argument, the words of the command with one blank between two of them,
\* so the blank-joined list contains "/bin/bash -ic " and then these words.
C14_RunCommandArgs ==
    pc \in {"returned", "raised"} =>
        /\ Len(procs) = 1
        /\ procs[1].state = "exited"
        /\ procs[1].waits = 1
        /\ LET argv == procs[1].argv
               n == Len(argv)
               flat == Join(<<" ">>, argv)
           IN  /\ n = Len(GetDockerRunCommand(commit)) + 3
               /\ SubSeq(argv, 1, n - 3) = GetDockerRunCommand(commit)
               /\ argv[n - 2] = <<"/bin/bash">>
               /\ argv[n - 1] = <<"-ic">>
               /\ Split(argv[n]) = command
               /\ Len(argv[n]) = IF command = <<>> THEN 0
                                 ELSE 2 * Len(command) - 1
               /\ Contains(flat, <<"/bin/bash", " ", "-ic", " ">> \o argv[n])
               /\ command = << <<"run">>, <<"command">> >> =>
                      Contains(flat, <<"/bin/bash", " ", "-ic", " ", "run",
                                       " ", "command">>)

\* The call of test_run_command.
C14_Witness ==
    /\ pc = "returned"
    /\ command = << <<"run">>, <<"command">> >>
    /\ Len(procs) = 1

\* C19: in container.run_tests the image is built once, after the targets
\* were partitioned and before the first test container is started; the
\* build has succeeded in every state with a test container, and the
\* launches, the waits and the reduction follow in this order.
C19_StageOrder ==
    variant = "container" =>
        /\ Len(builds) = IF build = "none" THEN 0 ELSE 1
        /\ build # "none" => Chunked
        /\ pc = "chunk" => build = "none" /\ procs = <<>>
        /\ TestProcs # {} => build = "ok"
        /\ pc \in {"launch", "wait", "reduce", "done"} => build = "ok"
        /\ exits # <<>> => Len(runs) = Len(chunks)
        /\ ret # "none" => Len(exits) = Len(runs)

C19_Witness ==
    /\ variant = "container"
    /\ pc = "done"
    /\ Len(builds) = 1
    /\ build = "ok"
    /\ Cardinality(TestProcs) = 3

\* text.split("\n"): the lines of a text, empty ones too.
RECURSIVE LinesFrom(_, _)
LinesFrom(text, line) ==
    IF text = <<>> THEN <<line>>
    ELSE IF Head(text) = "\n" THEN <<line>> \o LinesFrom(Tail(text), <<>>)
         ELSE LinesFrom(Tail(text), Append(line, Head(text)))

Lines(text) == LinesFrom(text, <<>>)

\* A word that names a target of the run.
IsTarget(word) == \E t \in 1..Len(test_targets) : word = <<test_targets[t]>>

IsBazel(word) == word = <<"bazel">>

\* C20: every test container is given one shell command text, the last
\* argument after /bin/bash and its flag: the pre-run commands, unchanged
\* and in order, one per line, then one bazel invocation that begins
\* "bazel test --config=ci" and names the targets of the container's
\* partition, each once, in order, and no other target of the run.
C20_ShellCommand ==
    \A i \in TestProcs :
        LET argv == procs[i].argv
            n == Len(argv)
            lines == Lines(argv[n])
            bazel == Split(lines[Len(lines)])
            part == chunks[procs[i].chunk]
        IN  /\ n = Len(GetDockerRunCommand(commit)) + 3
            /\ argv[n - 2] = <<"/bin/bash">>
            /\ Len(lines) = Len(pre_run_commands) + 1
            /\ \A j \in 1..Len(pre_run_commands) : lines[j] = pre_run_commands[j]
            /\ Len(bazel) >= 3
            /\ SubSeq(bazel, 1, 3) = << <<"bazel">>, <<"test">>, <<"--config=ci">> >>
            /\ Len(SelectSeq(bazel, IsBazel)) = 1
            /\ SelectSeq(bazel, IsTarget) = [j \in 1..Len(part) |-> <<part[j]>>]

\* The second of three partitions, with two pre-run commands.
C20_Witness ==
    /\ variant = "docker"
    /\ pre_run_commands = <<CdCommand, ExportCommand>>
    /\ bazel_export_output # <<>>
    /\ Len(test_targets) = 10
    /\ Len(chunks) = 3
    /\ \E i \in TestProcs : procs[i].chunk = 2

\* The image reference of the run, piece by piece:
\* <registry host>/<repository>:oss-ci-build_<commit>
RunImage ==
    <<"029272617770.dkr.ecr.us-west-2.amazonaws.com", "/", "ci_base_images",
      ":", "oss-ci-build_", commit>>

\* The arguments of argv that follow the argument flag.
ArgsAfter(argv, flag) == {argv[j + 1] : j \in {i \in 1..(Len(argv) - 1) : argv[i] = flag}}

\* The image a docker run argument list starts its container from: the
\* argument before the command /bin/bash.
ImagesRun(argv) ==
    {argv[j - 1] : j \in {i \in 2..Len(argv) : argv[i] = <<"/bin/bash">>}}

\* C21: the image docker build tags (-t) and the image every container of
\* the run is started from are one reference, registry/repository:tag with
\* the tag "oss-ci-build_" and the commit; it is the same at every launch.
C21_SameImage ==
    /\ \A b \in 1..Len(builds) : ArgsAfter(builds[b], <<"-t">>) = {RunImage}
    /\ \A i \in 1..Len(procs) : ImagesRun(procs[i].argv) = {RunImage}

\* Three test containers started from the image the build has tagged.
C21_Witness ==
    /\ variant = "container"
    /\ commit = "abc123"
    /\ Len(builds) = 1
    /\ build = "ok"
    /\ Cardinality(TestProcs) = 3
    /\ \A i \in TestProcs : ImagesRun(procs[i].argv) = ArgsAfter(builds[1], <<"-t">>)

\* What each variant returns for the exit codes es of its containers.
VerdictOf(v, es) == IF v = "container" THEN ContainerReduce(es) ELSE DockerReduce(es)

\* C22: a run that returns has one exit code per partition, and for these
\* exit codes container.run_tests returns True exactly when docker.run_tests
\* returns 0, which is exactly when every exit code is 0; the run returns
\* what its variant returns for them, and docker.run_tests returns nothing
\* but 0 or 1.
C22_SameVerdict ==
    /\ pc = "done" =>
          /\ chunks = ChunkIntoN(test_targets, parallelism)
          /\ Len(exits) = Len(chunks)
          /\ ret = VerdictOf(variant, exits)
          /\ (VerdictOf("container", exits) = "True")
                <=> (VerdictOf("docker", exits) = "0")
          /\ (VerdictOf("docker", exits) = "0")
                <=> (\A i \in 1..Len(exits) : exits[i] = 0)
          /\ VerdictOf("container", exits) \in {"True", "False"}
    /\ variant = "docker" => ret \in {"none", "0", "1"}
    /\ variant = "docker" /\ pc = "done" => ret \in {"0", "1"}

\* docker.run_tests returning 1 for three partitions of which the second
\* container failed, where container.run_tests returns False.
C22_Witness ==
    /\ variant = "docker"
    /\ pc = "done"
    /\ Len(chunks) = 3
    /\ exits = <<0, 1, 0>>
    /\ ret = "1"
    /\ VerdictOf("container", exits) = "False"

====
